---------------------------- MODULE Spec2Model ----------------------------
(***************************************************************************)
(* A model of the fitness-coach prompt-chaining program (src/app.py):      *)
(*   - the structured-text parser/serializer the program relies on         *)
(*     (json.loads / json.dumps as used by app.py),                        *)
(*   - FitnessCoach.fix_json, the layered recovery of malformed output,    *)
(*   - FitnessCoach._extract_text_from_response, the response flattener,   *)
(*   - chain1_planning / chain2_execution / generate / main, the pipeline. *)
(*                                                                         *)
(* A text is a sequence of one-character strings.  An optional text        *)
(* (Python's Optional[str]) is a record [some, txt].  Loops over the       *)
(* characters of a text are written as set expressions or by halving, so   *)
(* that the depth of evaluation does not grow with the length of a text.   *)
(***************************************************************************)
EXTENDS Integers, Sequences, FiniteSets, TLC

-----------------------------------------------------------------------------
(* Characters and elementary text operations                               *)

\* Python str.strip() / regex \s whitespace that can occur in the model's texts.
Ws == {" ", "\n", "\t", "\r"}

\* Whitespace skipped by the structured-text parser (json.decoder.WHITESPACE).
JsonWs == {" ", "\t", "\n", "\r"}

\* Line boundaries of str.splitlines().
LineBreaks == {"\n", "\r"}

Digits == {"0", "1", "2", "3", "4", "5", "6", "7", "8", "9"}

HexDigits == Digits \cup {"a", "b", "c", "d", "e", "f", "A", "B", "C", "D", "E", "F"}

\* Optional[str]
None == [some |-> FALSE, txt |-> <<>>]

Some(t) == [some |-> TRUE, txt |-> t]

\* Python truthiness of an Optional[str]: neither None nor "".
Truthy(o) == o.some /\ o.txt # <<>>

SetMin(S) == CHOOSE i \in S : \A j \in S : i <= j

SetMax(S) == CHOOSE i \in S : \A j \in S : i >= j

\* The k-th smallest element of a set of numbers.
NthSmallest(S, k) == CHOOSE i \in S : Cardinality({j \in S : j <= i}) = k

\* s[i:i+1]: the character at 1-based i, "" outside the text
At(s, i) == IF i >= 1 /\ i <= Len(s) THEN s[i] ELSE ""

\* s[i:] with a 0-based i (Python slice), for 0 <= i.
From(s, i) == IF i >= Len(s) THEN <<>> ELSE SubSeq(s, i + 1, Len(s))

\* s.startswith(p)
StartsWith(s, p) == Len(s) >= Len(p) /\ SubSeq(s, 1, Len(p)) = p

\* s.endswith(p)
EndsWith(s, p) == Len(s) >= Len(p) /\ SubSeq(s, Len(s) - Len(p) + 1, Len(s)) = p

\* p in s
Contains(s, p) ==
    \E i \in 1..(Len(s) - Len(p) + 1) : SubSeq(s, i, i + Len(p) - 1) = p

\* s.find(c) as a 1-based index, 0 when c does not occur.
Find(s, c) == SetMin({i \in 1..Len(s) : s[i] = c} \cup {Len(s) + 1}) % (Len(s) + 1)

\* s.rfind(c) as a 1-based index, 0 when c does not occur.
RFind(s, c) == SetMax({i \in 1..Len(s) : s[i] = c} \cup {0})

\* s.count(c)
Count(s, c) == Cardinality({i \in 1..Len(s) : s[i] = c})

\* s.lstrip(chars)
LStrip(s, chars) ==
    SubSeq(s, SetMin({i \in 1..Len(s) : s[i] \notin chars} \cup {Len(s) + 1}), Len(s))

\* s.rstrip(chars)
RStrip(s, chars) ==
    SubSeq(s, 1, SetMax({i \in 1..Len(s) : s[i] \notin chars} \cup {0}))

\* s.strip() / s.strip(chars)
Strip(s, chars) == RStrip(LStrip(s, chars), chars)

RECURSIVE KeepRange(_, _, _, _)
\* [xs[n] for n in lo..hi if n in kept], by halving the range
KeepRange(xs, kept, lo, hi) ==
    IF lo > hi THEN <<>>
    ELSE IF lo = hi THEN (IF lo \in kept THEN <<xs[lo]>> ELSE <<>>)
    ELSE KeepRange(xs, kept, lo, (lo + hi) \div 2)
         \o KeepRange(xs, kept, (lo + hi) \div 2 + 1, hi)

\* [xs[n] for n in 1..len(xs) if n in kept]
SelectSeqBy(xs, kept) == KeepRange(xs, kept, 1, Len(xs))

\* Case folding of re.IGNORECASE for the letters of the fence tag.
Lower(c) ==
    CASE c = "J" -> "j"
      [] c = "S" -> "s"
      [] c = "O" -> "o"
      [] c = "N" -> "n"
      [] OTHER -> c

\* The backtick character.  The module's lexer rejects a literal backtick inside
\* a string, so the character is written as a tilde; no text of the model
\* contains a real tilde.
Backtick == "~"

Fence == <<Backtick, Backtick, Backtick>>

JsonTag == <<"j", "s", "o", "n">>

\* (?:json)? under re.IGNORECASE, at the start of a
DropJsonTag(a) ==
    IF Len(a) >= Len(JsonTag) /\ [i \in 1..Len(JsonTag) |-> Lower(a[i])] = JsonTag
    THEN From(a, Len(JsonTag)) ELSE a

\* re.sub(r"^<fence>(?:json)?\s*", "", s, flags=re.IGNORECASE)
StripLeadingFence(s) ==
    IF StartsWith(s, Fence) THEN LStrip(DropJsonTag(From(s, Len(Fence))), Ws) ELSE s

\* re.sub(r"\s*<fence>$", "", s) for a text that does not end in a line break
StripTrailingFence(s) ==
    IF EndsWith(s, Fence) THEN RStrip(SubSeq(s, 1, Len(s) - Len(Fence)), Ws) ELSE s

\* re.sub(r"<fence>$", "", s) for a text that does not end in a line break
DropTrailingFence(s) ==
    IF EndsWith(s, Fence) THEN SubSeq(s, 1, Len(s) - Len(Fence)) ELSE s

\* The indices where a line boundary of s begins; "\r\n" is one boundary.
BreakStarts(s) ==
    {i \in 1..Len(s) : s[i] \in LineBreaks /\ ~(s[i] = "\n" /\ At(s, i - 1) = "\r")}

\* The last index of the line boundary that begins at i.
BreakEnd(s, i) == IF s[i] = "\r" /\ At(s, i + 1) = "\n" THEN i + 1 ELSE i

\* The first index of the k-th line of s.
LineStart(s, k) ==
    IF k = 1 THEN 1 ELSE BreakEnd(s, NthSmallest(BreakStarts(s), k - 1)) + 1

\* The last index of the k-th line of s.
LineEnd(s, k) ==
    IF k <= Cardinality(BreakStarts(s)) THEN NthSmallest(BreakStarts(s), k) - 1
    ELSE Len(s)

\* len(s.splitlines()): text after the last boundary is a line of its own.
NumLines(s) ==
    Cardinality(BreakStarts(s))
    + (IF LineStart(s, Cardinality(BreakStarts(s)) + 1) <= Len(s) THEN 1 ELSE 0)

\* s.splitlines()
SplitLines(s) == [k \in 1..NumLines(s) |-> SubSeq(s, LineStart(s, k), LineEnd(s, k))]

RECURSIVE Join(_, _)
\* sep.join(parts)
Join(parts, sep) ==
    IF parts = <<>> THEN <<>>
    ELSE IF Len(parts) = 1 THEN parts[1]
    ELSE parts[1] \o sep \o Join(Tail(parts), sep)

RECURSIVE BackslashRun(_, _)
\* The number of consecutive backslashes that end at index j.
BackslashRun(text, j) ==
    IF At(text, j) = "\\" THEN 1 + BackslashRun(text, j - 1) ELSE 0

-----------------------------------------------------------------------------
(* Structured values and the parser  (json.loads as called by app.py)      *)
(*                                                                         *)
(* A value is a record [t, v]: t is its kind and v its content, always a   *)
(* sequence.  An object keeps its members in insertion order, as a Python  *)
(* dict does.  A parse result is [ok, val, pos]: pos is the index of the   *)
(* first character after the value.                                        *)

JStr(cs) == [t |-> "str", v |-> cs]

\* an int, kept as its decimal digits
JNum(lexeme) == [t |-> "num", v |-> lexeme]

\* a float, kept as the text it was read from (its repr is not modelled)
JFloat(lexeme) == [t |-> "float", v |-> lexeme]

\* true, false, null, NaN, Infinity, -Infinity
JLit(name) == [t |-> "lit", v |-> name]

JArr(elems) == [t |-> "arr", v |-> elems]

JObj(members) == [t |-> "obj", v |-> members]

NoValue == [t |-> "none", v |-> <<>>]

ParseFail == [ok |-> FALSE, val |-> NoValue, pos |-> 0]

ParseOk(val, pos) == [ok |-> TRUE, val |-> val, pos |-> pos]

RECURSIVE SkipWs(_, _)
\* WHITESPACE.match(s, i).end()
SkipWs(s, i) == IF At(s, i) \in JsonWs THEN SkipWs(s, i + 1) ELSE i

RECURSIVE DigitsEnd(_, _)
\* the end of the run of digits \d* that starts at i
DigitsEnd(s, i) == IF At(s, i) \in Digits THEN DigitsEnd(s, i + 1) ELSE i

\* json.decoder BACKSLASH: the character an escape stands for
Unescape(c) ==
    CASE c = "\"" -> "\""
      [] c = "\\" -> "\\"
      [] c = "/" -> "/"
      [] c = "n" -> "\n"
      [] c = "r" -> "\r"
      [] c = "t" -> "\t"
      [] c = "f" -> "\f"
      [] c = "b" -> "\\b"

EscapeChars == {"\"", "\\", "/", "n", "r", "t", "f", "b"}

\* Characters a strict parser rejects inside a string (code points below 0x20).
ControlChars == {"\n", "\r", "\t", "\f", "\\b"}

\* scanstring: index p holds the backslash that opens an escape.
IsIntro(s, p) == s[p] = "\\" /\ BackslashRun(s, p - 1) % 2 = 0

\* scanstring: index p holds the character an escape names.
IsEscaped(s, p) == At(s, p - 1) = "\\" /\ IsIntro(s, p - 1)

\* scanstring: index p holds one of the four hexadecimal digits of a \u escape.
IsHexOfEscape(s, p) ==
    \E q \in (p - 4)..(p - 1) : At(s, q) = "u" /\ IsEscaped(s, q)

\* scanstring: the closing quote of the string whose first character is at
\* i, 0 when the string is not terminated.
StringEnd(s, i) ==
    SetMin({j \in i..Len(s) : s[j] = "\"" /\ BackslashRun(s, j - 1) % 2 = 0}
           \cup {Len(s) + 1}) % (Len(s) + 1)

\* scanstring(strict=True): what the character at p may be.
CharOk(s, p, closing) ==
    IF IsEscaped(s, p)
    THEN \/ s[p] \in EscapeChars
         \/ /\ s[p] = "u"
            /\ p + 4 < closing
            /\ \A k \in 1..4 : s[p + k] \in HexDigits
    ELSE s[p] \notin ControlChars

\* scanstring: the decoded characters the character at p contributes.  A
\* \uXXXX escape is kept as one symbolic character.
Decoded(s, p) ==
    IF IsEscaped(s, p)
    THEN (IF s[p] = "u"
          THEN <<"\\u" \o s[p + 1] \o s[p + 2] \o s[p + 3] \o s[p + 4]>>
          ELSE <<Unescape(s[p])>>)
    ELSE IF IsIntro(s, p) \/ IsHexOfEscape(s, p) THEN <<>>
    ELSE <<s[p]>>

RECURSIVE DecodeRange(_, _, _)
\* the decoded characters of s[lo..hi], by halving the range
DecodeRange(s, lo, hi) ==
    IF lo > hi THEN <<>>
    ELSE IF lo = hi THEN Decoded(s, lo)
    ELSE DecodeRange(s, lo, (lo + hi) \div 2)
         \o DecodeRange(s, (lo + hi) \div 2 + 1, hi)

\* scanstring, given the index of the closing quote
ScanStringTo(s, i, closing) ==
    IF closing = 0 \/ \E p \in i..(closing - 1) : ~CharOk(s, p, closing)
    THEN ParseFail
    ELSE ParseOk(JStr(DecodeRange(s, i, closing - 1)), closing + 1)

\* json.decoder.scanstring(s, end, strict=True): i is the index after the
\* opening quote.
ScanString(s, i) == ScanStringTo(s, i, StringEnd(s, i))

\* The value of a number that spans s[i..j3-1] and whose integer part ends
\* before j1.
NumberValue(s, i, j1, j3) ==
    IF j3 = j1
    THEN ParseOk(JNum(IF SubSeq(s, i, j3 - 1) = <<"-", "0">> THEN <<"0">>
                      ELSE SubSeq(s, i, j3 - 1)), j3)
    ELSE ParseOk(JFloat(SubSeq(s, i, j3 - 1)), j3)

\* ([eE][-+]?\d+)? at j2, the digits of the exponent starting at k
NumberExp(s, i, j1, j2, k) ==
    IF At(s, j2) \in {"e", "E"} /\ At(s, k) \in Digits
    THEN NumberValue(s, i, j1, DigitsEnd(s, k))
    ELSE NumberValue(s, i, j1, j2)

\* (\.\d+)? has been matched up to j2
NumberFrac(s, i, j1, j2) ==
    NumberExp(s, i, j1, j2, IF At(s, j2 + 1) \in {"+", "-"} THEN j2 + 2 ELSE j2 + 1)

\* (-?(?:0|[1-9]\d*)) has been matched up to j1
NumberInt(s, i, j1) ==
    NumberFrac(s, i, j1,
               IF At(s, j1) = "." /\ At(s, j1 + 1) \in Digits
               THEN DigitsEnd(s, j1 + 1) ELSE j1)

\* the integer part begins at j0, after the sign if there is one
NumberFrom(s, i, j0) ==
    IF At(s, j0) \notin Digits THEN ParseFail
    ELSE NumberInt(s, i, IF s[j0] = "0" THEN j0 + 1 ELSE DigitsEnd(s, j0))

\* json.scanner NUMBER_RE = (-?(?:0|[1-9]\d*))(\.\d+)?([eE][-+]?\d+)? matched at i
ScanNumber(s, i) == NumberFrom(s, i, IF At(s, i) = "-" THEN i + 1 ELSE i)

Literals ==
    { <<"n", "u", "l", "l">>, <<"t", "r", "u", "e">>, <<"f", "a", "l", "s", "e">>,
      <<"N", "a", "N">>, <<"I", "n", "f", "i", "n", "i", "t", "y">>,
      <<"-", "I", "n", "f", "i", "n", "i", "t", "y">> }

\* The literals that s carries at index i (at most one).
LiteralsAt(s, i) ==
    {l \in Literals : i + Len(l) - 1 <= Len(s) /\ SubSeq(s, i, i + Len(l) - 1) = l}

\* dict[key] = value: a repeated key keeps its first position and takes the
\* last value.
PutMember(members, key, val) ==
    IF \E n \in 1..Len(members) : members[n].k = key
    THEN [n \in 1..Len(members) |->
            IF members[n].k = key THEN [k |-> key, val |-> val] ELSE members[n]]
    ELSE Append(members, [k |-> key, val |-> val])

RECURSIVE ParseValue(_, _)
RECURSIVE ParseMembers(_, _, _)
RECURSIVE ParseElements(_, _, _)

\* JSONObject: after a member, at the first character e that follows it
MembersNext(s, now, e) ==
    IF At(s, e) = "}" THEN ParseOk(JObj(now), e + 1)
    ELSE IF At(s, e) = "," /\ At(s, SkipWs(s, e + 1)) = "\""
         THEN ParseMembers(s, SkipWs(s, e + 1), now)
         ELSE ParseFail

\* JSONObject: the value of the member with key k has been scanned
MembersAfterValue(s, acc, k, val) ==
    IF val.ok THEN MembersNext(s, PutMember(acc, k, val.val), SkipWs(s, val.pos))
    ELSE ParseFail

\* JSONObject: the key has been scanned
MembersAfterKey(s, acc, key) ==
    IF key.ok /\ At(s, SkipWs(s, key.pos)) = ":"
    THEN MembersAfterValue(s, acc, key.val.v,
                           ParseValue(s, SkipWs(s, SkipWs(s, key.pos) + 1)))
    ELSE ParseFail

\* json.decoder.JSONObject: the loop over "key": value pairs; i is the index
\* of the opening quote of the next key.
ParseMembers(s, i, acc) == MembersAfterKey(s, acc, ScanString(s, i + 1))

\* JSONArray: an element has been scanned
ElementsAfterValue(s, acc, val) ==
    IF ~val.ok THEN ParseFail
    ELSE IF At(s, SkipWs(s, val.pos)) = "]"
         THEN ParseOk(JArr(Append(acc, val.val)), SkipWs(s, val.pos) + 1)
    ELSE IF At(s, SkipWs(s, val.pos)) = ","
         THEN ParseElements(s, SkipWs(s, SkipWs(s, val.pos) + 1), Append(acc, val.val))
    ELSE ParseFail

\* json.decoder.JSONArray: the loop over values; i is the index of the next
\* value.
ParseElements(s, i, acc) == ElementsAfterValue(s, acc, ParseValue(s, i))

\* JSONObject, at the first character j after the open brace and whitespace
ObjectAt(s, j) ==
    IF At(s, j) = "}" THEN ParseOk(JObj(<<>>), j + 1)
    ELSE IF At(s, j) = "\"" THEN ParseMembers(s, j, <<>>)
    ELSE ParseFail

\* JSONArray, at the first character j after the open bracket and whitespace
ArrayAt(s, j) ==
    IF At(s, j) = "]" THEN ParseOk(JArr(<<>>), j + 1)
    ELSE ParseElements(s, j, <<>>)

\* a literal name or a number at i
ScalarAt(s, i, lits) ==
    IF lits = {} THEN ScanNumber(s, i)
    ELSE ParseOk(JLit(CHOOSE l \in lits : TRUE), i + Len(CHOOSE l \in lits : TRUE))

\* json.scanner.py_make_scanner._scan_once(s, i)
ParseValue(s, i) ==
    IF At(s, i) = "\"" THEN ScanString(s, i + 1)
    ELSE IF At(s, i) = "{" THEN ObjectAt(s, SkipWs(s, i + 1))
    ELSE IF At(s, i) = "[" THEN ArrayAt(s, SkipWs(s, i + 1))
    ELSE ScalarAt(s, i, LiteralsAt(s, i))

\* json.loads: nothing but whitespace may follow the value
LoadsEnd(s, r) == IF r.ok /\ SkipWs(s, r.pos) = Len(s) + 1 THEN r ELSE ParseFail

\* json.loads(s): one value, surrounded by whitespace only.  ok = FALSE is
\* the JSONDecodeError.
Loads(s) == LoadsEnd(s, ParseValue(s, SkipWs(s, 1)))

-----------------------------------------------------------------------------
(* The serializer  (json.dumps(value, ensure_ascii=False, indent=2))       *)

\* The indent argument app.py passes to json.dumps.
IndentWidth == 2

\* ' ' * n
Spaces(n) == [k \in 1..n |-> " "]

\* json.encoder: newline_indent = '\n' + ' ' * (indent * level)
NewlineIndent(level) == <<"\n">> \o Spaces(IndentWidth * level)

\* json.encoder ESCAPE_DCT, for one decoded character
EscapeChar(c) ==
    CASE c = "\"" -> <<"\\", "\"">>
      [] c = "\\" -> <<"\\", "\\">>
      [] c = "\n" -> <<"\\", "n">>
      [] c = "\r" -> <<"\\", "r">>
      [] c = "\t" -> <<"\\", "t">>
      [] c = "\f" -> <<"\\", "f">>
      [] c = "\\b" -> <<"\\", "b">>
      [] OTHER -> <<c>>

RECURSIVE EscapeRange(_, _, _)
\* the escaped form of cs[lo..hi], by halving the range
EscapeRange(cs, lo, hi) ==
    IF lo > hi THEN <<>>
    ELSE IF lo = hi THEN EscapeChar(cs[lo])
    ELSE EscapeRange(cs, lo, (lo + hi) \div 2)
         \o EscapeRange(cs, (lo + hi) \div 2 + 1, hi)

\* json.encoder.py_encode_basestring
Quoted(cs) == <<"\"">> \o EscapeRange(cs, 1, Len(cs)) \o <<"\"">>

RECURSIVE DumpsAt(_, _)
RECURSIVE DumpItems(_, _, _)

\* json.encoder._make_iterencode._iterencode(o, level)
DumpsAt(val, level) ==
    CASE val.t = "str" -> Quoted(val.v)
      [] val.t \in {"num", "float", "lit"} -> val.v
      [] val.t = "arr" /\ val.v = <<>> -> <<"[", "]">>
      [] val.t = "obj" /\ val.v = <<>> -> <<"{", "}">>
      [] val.t = "arr" /\ val.v # <<>> ->
            <<"[">> \o DumpItems(val, 1, level + 1) \o NewlineIndent(level) \o <<"]">>
      [] val.t = "obj" /\ val.v # <<>> ->
            <<"{">> \o DumpItems(val, 1, level + 1) \o NewlineIndent(level) \o <<"}">>

\* One item of a list, or one "key": value of a dict.
DumpItem(val, n, level) ==
    IF val.t = "obj"
    THEN Quoted(val.v[n].k) \o <<":", " ">> \o DumpsAt(val.v[n].val, level)
    ELSE DumpsAt(val.v[n], level)

\* The items of a list or dict from the n-th on, each on its own line.
DumpItems(val, n, level) ==
    IF n > Len(val.v) THEN <<>>
    ELSE NewlineIndent(level) \o DumpItem(val, n, level)
         \o (IF n < Len(val.v) THEN <<",">> ELSE <<>>)
         \o DumpItems(val, n + 1, level)

\* json.dumps(val, ensure_ascii=False, indent=2)
Dumps(val) == DumpsAt(val, 0)

-----------------------------------------------------------------------------
(* FitnessCoach.fix_json: the recovery strategies, in the order of the     *)
(* code.  Each takes the prepared text s and yields an Optional[str].      *)

\* The length a salvaged line must exceed to be kept as a step.
SalvageMinLen == 10

KeySteps == <<"s", "t", "e", "p", "s">>

KeyAssumptions == <<"a", "s", "s", "u", "m", "p", "t", "i", "o", "n", "s">>

KeySuccessCriteria ==
    <<"s", "u", "c", "c", "e", "s", "s", "_", "c", "r", "i", "t", "e", "r", "i", "a">>

\* s = (json_str or "").strip(); both fences removed; s = s.strip()
Prepare(json_str) ==
    Strip(StripTrailingFence(StripLeadingFence(Strip(json_str, Ws))), Ws)

\* return json.dumps(parsed, ensure_ascii=False, indent=2), or pass on
\* the exception of json.loads
DumpIfOk(r) == IF r.ok THEN Some(Dumps(r.val)) ELSE None

\* try: parsed = json.loads(text); return json.dumps(parsed, ...)
\* except Exception: pass
ParseAndDump(text) == DumpIfOk(Loads(text))

\* Strategy 1: direct parse of the prepared text.
DirectParse(s) == ParseAndDump(s)

\* depth after the loop body has run for the indices start..i
Depth(s, start, i) ==
    Cardinality({q \in start..i : s[q] = "{"})
    - Cardinality({q \in start..i : s[q] = "}"})

\* A faulty scan that runs to the last close brace of the text instead of
\* the one that balances the first open brace.
BraceScanGreedy(s, start) == RFind(s, "}")

\* The depth-counting loop from the first open brace on: the index of the
\* close brace that brings the depth back to zero, 0 when there is none
\* (end_index is None).
BraceScan(s, start) ==
    SetMin({i \in start..Len(s) : s[i] = "}" /\ Depth(s, start, i) = 0}
           \cup {Len(s) + 1}) % (Len(s) + 1)

\* candidate = s[start:end_index + 1], parsed when end_index is not None
BraceCandidate(s, start, endIndex) ==
    IF endIndex = 0 THEN None ELSE ParseAndDump(SubSeq(s, start, endIndex))

\* Strategy 2: the substring from the first open brace to the brace that
\* balances it.
BraceBalanced(s) ==
    IF Find(s, "{") = 0 THEN None
    ELSE BraceCandidate(s, Find(s, "{"), BraceScan(s, Find(s, "{")))

\* close_open_quotes(text): one closing quote when the unescaped quotes are odd
CloseOpenQuotes(text) ==
    IF Cardinality({i \in 1..Len(text) :
           text[i] = "\"" /\ BackslashRun(text, i - 1) % 2 = 0}) % 2 = 1
    THEN Append(text, "\"") ELSE text

\* c * n
Repeat(c, n) == [k \in 1..n |-> c]

\* if close_braces < open_braces: candidate += '}' * (open - close)
PadBraces(text) ==
    IF Count(text, "}") < Count(text, "{")
    THEN text \o Repeat("}", Count(text, "{") - Count(text, "}"))
    ELSE text

\* the end of the run \s* that starts at i
RegexWsEnd(s, i) == SetMin({j \in i..Len(s) : s[j] \notin Ws} \cup {Len(s) + 1})

\* The indices that the matches of ,\s*(\]|\}) remove: the comma and the
\* whitespace before the closing bracket.
TrailingCommaSpans(text) ==
    {p \in 1..Len(text) :
        \E i \in 1..p : /\ text[i] = ","
                        /\ RegexWsEnd(text, i + 1) > p
                        /\ At(text, RegexWsEnd(text, i + 1)) \in {"]", "}"}}

\* re.sub(r",\s*(\]|\})", r"\1", text)
StripTrailingCommas(text) ==
    SelectSeqBy(text, (1..Len(text)) \ TrailingCommaSpans(text))

\* The repaired candidate of strategy 3, for a text with an open brace.
Repaired(s) ==
    StripTrailingCommas(PadBraces(CloseOpenQuotes(
        RStrip(DropTrailingFence(From(s, Find(s, "{") - 1)), Ws))))

\* Strategy 3: heuristic repair of the text from the first open brace on.
HeuristicRepair(s) ==
    IF Find(s, "{") = 0 THEN None ELSE ParseAndDump(Repaired(s))

\* ln.strip().strip('",') for each line that was kept
CleanKept(kept) == [n \in 1..Len(kept) |-> Strip(Strip(kept[n], Ws), {"\"", ","})]

\* ... for ln in raw if ln.strip()
NonBlank(raw) == SelectSeqBy(raw, {n \in 1..Len(raw) : Strip(raw[n], Ws) # <<>>})

\* lines = [ln.strip().strip('",') for ln in inner.splitlines() if ln.strip()]
CleanLines(inner) == CleanKept(NonBlank(SplitLines(inner)))

\* A faulty length test: len(ln) >= 10.
LongLinesInclusive(lines) ==
    SelectSeqBy(lines, {n \in 1..Len(lines) : Len(lines[n]) >= SalvageMinLen})

\* steps = [ln for ln in lines if len(ln) > 10]
LongLines(lines) ==
    SelectSeqBy(lines, {n \in 1..Len(lines) : Len(lines[n]) > SalvageMinLen})

\* if inner.startswith('{'): inner = inner[1:]
DropOpenBrace(b) == IF StartsWith(b, <<"{">>) THEN From(b, 1) ELSE b

\* The text whose lines strategy 4 reads: fences stripped again, a leading
\* open brace dropped.
SalvageInner(s) ==
    DropOpenBrace(Strip(StripTrailingFence(Strip(StripLeadingFence(s), Ws)), Ws))

\* fallback = {"steps": steps, "assumptions": [], "success_criteria": []}
Fallback(steps) ==
    JObj(<< [k |-> KeySteps, val |-> JArr([n \in 1..Len(steps) |-> JStr(steps[n])])],
            [k |-> KeyAssumptions, val |-> JArr(<<>>)],
            [k |-> KeySuccessCriteria, val |-> JArr(<<>>)] >>)

\* if steps: return json.dumps(fallback, ensure_ascii=False, indent=2)
SalvageSteps(steps) == IF steps # <<>> THEN Some(Dumps(Fallback(steps))) ELSE None

\* Strategy 4: line salvage.
LineSalvage(s) == SalvageSteps(LongLines(CleanLines(SalvageInner(s))))

\* Strategy 5: re.search(r"(\{[\s\S]*\})", s), first open brace to last close
GreedyBraces(s) ==
    IF Find(s, "{") = 0 \/ RFind(s, "}") < Find(s, "{") THEN None
    ELSE ParseAndDump(SubSeq(s, Find(s, "{"), RFind(s, "}")))

\* Strategy 6: if '"steps"' in s and '{' not in s: parse '{' + s + '}'
StepsUnwrap(s) ==
    IF Contains(s, <<"\"">> \o KeySteps \o <<"\"">>) /\ Find(s, "{") = 0
    THEN ParseAndDump(<<"{">> \o s \o <<"}">>)
    ELSE None

\* One strategy, by name.
RunStrategy(name, s) ==
    CASE name = "direct"  -> DirectParse(s)
      [] name = "brace"   -> BraceBalanced(s)
      [] name = "repair"  -> HeuristicRepair(s)
      [] name = "salvage" -> LineSalvage(s)
      [] name = "greedy"  -> GreedyBraces(s)
      [] name = "unwrap"  -> StepsUnwrap(s)

\* A faulty ladder in which line salvage comes right after the direct parse
\* and the brace strategies after it.
NextStrategySalvageFirst(name, s) ==
    CASE name = "direct"  -> "salvage"
      [] name = "salvage" -> IF Find(s, "{") # 0 THEN "brace" ELSE "greedy"
      [] name = "brace"   -> "repair"
      [] name = "repair"  -> "greedy"
      [] name = "greedy"  -> "unwrap"
      [] name = "unwrap"  -> "return"

\* The block of fix_json that control reaches when strategy name has not
\* returned: the two brace strategies sit under "if start != -1".
NextStrategy(name, s) ==
    CASE name = "direct"  -> IF Find(s, "{") # 0 THEN "brace" ELSE "salvage"
      [] name = "brace"   -> "repair"
      [] name = "repair"  -> "salvage"
      [] name = "salvage" -> "greedy"
      [] name = "greedy"  -> "unwrap"
      [] name = "unwrap"  -> "return"

RECURSIVE FixFrom(_, _)

\* Strategy name has yielded r: return it, or fall through to the next block.
FixStep(name, s, r) == IF r.some THEN r ELSE FixFrom(NextStrategy(name, s), s)

\* fix_json from the block of strategy name on: the first result that is
\* not None, None at the final return.
FixFrom(name, s) ==
    IF name = "return" THEN None ELSE FixStep(name, s, RunStrategy(name, s))

\* fix_json(json_str)
FixJson(json_str) == FixFrom("direct", Prepare(json_str))

-----------------------------------------------------------------------------
(* FitnessCoach._extract_text_from_response                                *)
(*                                                                         *)
(* A response is a record                                                  *)
(*   text       Optional[str], the direct text attribute                   *)
(*   textRaises TRUE when reading response.text raises                     *)
(*   result     [present, parts]: parts is a sequence of Optional[str],    *)
(*              the text attribute of each part                            *)
(*   candidates a sequence of [content |-> [present, parts], text]         *)
(* An attribute that is missing reads as None (getattr's default).         *)

NoParts == [present |-> FALSE, parts |-> <<>>]

WithParts(parts) == [present |-> TRUE, parts |-> parts]

\* The indices of the parts whose text attribute is truthy.
TextParts(parts) == {m \in 1..Len(parts) : Truthy(parts[m])}

\* [p.text for p in parts if getattr(p, 'text', None)]
PartTexts(parts) ==
    [n \in 1..Cardinality(TextParts(parts)) |->
        parts[NthSmallest(TextParts(parts), n)].txt]

\* getattr(x, 'parts', None) is truthy on a holder that is itself truthy
HasParts(holder) == holder.present /\ holder.parts # <<>>

\* The texts one candidate adds: its content's parts when it has any,
\* otherwise its own text attribute.
CandidateTexts(cand) ==
    IF HasParts(cand.content) THEN PartTexts(cand.content.parts)
    ELSE IF Truthy(cand.text) THEN <<cand.text.txt>> ELSE <<>>

RECURSIVE AllCandidateTexts(_)
\* the loop over response.candidates
AllCandidateTexts(cands) ==
    IF cands = <<>> THEN <<>>
    ELSE CandidateTexts(Head(cands)) \o AllCandidateTexts(Tail(cands))

\* The parts list built by the if/elif over response.result and
\* response.candidates.
CollectedParts(response) ==
    IF HasParts(response.result) THEN PartTexts(response.result.parts)
    ELSE IF response.candidates # <<>> THEN AllCandidateTexts(response.candidates)
    ELSE <<>>

\* return '\n'.join(parts) if parts else None
JoinParts(parts) == IF parts # <<>> THEN Some(Join(parts, <<"\n">>)) ELSE None

\* _extract_text_from_response(response)
ExtractText(response) ==
    IF ~response.textRaises /\ Truthy(response.text) THEN response.text
    ELSE JoinParts(CollectedParts(response))

-----------------------------------------------------------------------------
(* The texts the model is run on                                           *)

\* {"steps": ["Warm up", "Main set"], "assumptions": [], "success_criteria": ["Done"]}
PlanDoc ==
    <<"{", "\"", "s", "t", "e", "p", "s", "\"", ":", " ", "[", "\"", "W", "a",
      "r", "m", " ", "u", "p", "\"", ",", " ", "\"", "M", "a", "i", "n", " ",
      "s", "e", "t", "\"", "]", ",", " ", "\"", "a", "s", "s", "u", "m", "p",
      "t", "i", "o", "n", "s", "\"", ":", " ", "[", "]", ",", " ", "\"", "s",
      "u", "c", "c", "e", "s", "s", "_", "c", "r", "i", "t", "e", "r", "i",
      "a", "\"", ":", " ", "[", "\"", "D", "o", "n", "e", "\"", "]", "}" >>

\* {"steps": ["Warm up", "Main set
TruncatedPlan ==
    <<"{", "\"", "s", "t", "e", "p", "s", "\"", ":", " ", "[", "\"", "W", "a",
      "r", "m", " ", "u", "p", "\"", ",", " ", "\"", "M", "a", "i", "n", " ",
      "s", "e", "t" >>

\* {"a": 1}
ObjFlat ==
    <<"{", "\"", "a", "\"", ":", " ", "1", "}" >>

\* {"a": {"b": [1, 2]}, "c": "x"}
ObjNested ==
    <<"{", "\"", "a", "\"", ":", " ", "{", "\"", "b", "\"", ":", " ", "[",
      "1", ",", " ", "2", "]", "}", ",", " ", "\"", "c", "\"", ":", " ", "\"",
      "x", "\"", "}" >>

\* {}
ObjEmpty ==
    <<"{", "}" >>

\* {"steps": ["Walk"]}
ObjSteps ==
    <<"{", "\"", "s", "t", "e", "p", "s", "\"", ":", " ", "[", "\"", "W", "a",
      "l", "k", "\"", "]", "}" >>

\* {"k": "a}b"}
ObjCloseInString ==
    <<"{", "\"", "k", "\"", ":", " ", "\"", "a", "}", "b", "\"", "}" >>

\* {"k":"{"}
ObjOpenInString ==
    <<"{", "\"", "k", "\"", ":", "\"", "{", "\"", "}" >>

\* {"key": "a{b"}
ObjOpenInLongString ==
    <<"{", "\"", "k", "e", "y", "\"", ":", " ", "\"", "a", "{", "b", "\"", "}" >>

\*  Hope this helps!
ProseHelps ==
    <<" ", "H", "o", "p", "e", " ", "t", "h", "i", "s", " ", "h", "e", "l",
      "p", "s", "!" >>

\* \nLet me know.
ProseNextLine ==
    <<"\n", "L", "e", "t", " ", "m", "e", " ", "k", "n", "o", "w", "." >>

\*  ok
ProseOk ==
    <<" ", "o", "k" >>

\*  (see {notes})
ProseBrace ==
    <<" ", "(", "s", "e", "e", " ", "{", "n", "o", "t", "e", "s", "}", ")" >>

\* \n<bt><bt><bt>
ProseFence ==
    <<"\n", Backtick, Backtick, Backtick >>

\* <bt><bt><bt>json\n
FenceJsonLine ==
    <<Backtick, Backtick, Backtick, "j", "s", "o", "n", "\n" >>

\* Do 10 pushups
LinePushups ==
    <<"D", "o", " ", "1", "0", " ", "p", "u", "s", "h", "u", "p", "s" >>

\* Rest 30 seconds
LineRest ==
    <<"R", "e", "s", "t", " ", "3", "0", " ", "s", "e", "c", "o", "n", "d",
      "s" >>

\* Rest
LineShort ==
    <<"R", "e", "s", "t" >>

\* Rest 1 min
LineTen ==
    <<"R", "e", "s", "t", " ", "1", " ", "m", "i", "n" >>

\*   "Plank for 60s",
LineQuoted ==
    <<" ", " ", "\"", "P", "l", "a", "n", "k", " ", "f", "o", "r", " ", "6",
      "0", "s", "\"", "," >>

\*   
LineBlank ==
    <<" ", " " >>

\* <bt><bt><bt>Stretch gently
LineFenceLed ==
    <<Backtick, Backtick, Backtick, "S", "t", "r", "e", "t", "c", "h", " ",
      "g", "e", "n", "t", "l", "y" >>

\* "steps":[]
MiscStepsOnly ==
    <<"\"", "s", "t", "e", "p", "s", "\"", ":", "[", "]" >>

\* "steps":x
MiscStepsBad ==
    <<"\"", "s", "t", "e", "p", "s", "\"", ":", "x" >>

\* oops
MiscGarbage ==
    <<"o", "o", "p", "s" >>

\* {"a":1,}
MiscTrailingComma ==
    <<"{", "\"", "a", "\"", ":", "1", ",", "}" >>

\* 42
MiscNumber ==
    <<"4", "2" >>

\* <bt><bt><bt>JSON\n{"steps": ["Walk"]}\n<bt><bt><bt>
MiscFencedPlan ==
    <<Backtick, Backtick, Backtick, "J", "S", "O", "N", "\n", "{", "\"", "s",
      "t", "e", "p", "s", "\"", ":", " ", "[", "\"", "W", "a", "l", "k", "\"",
      "]", "}", "\n", Backtick, Backtick, Backtick >>

\* # Plan\nWalk.
GuideText ==
    <<"#", " ", "P", "l", "a", "n", "\n", "W", "a", "l", "k", "." >>

\* The most lines an input built from the line library has.
MaxLines == 3

\* Well-formed objects whose strings hold no brace.
PlainObjects == {ObjFlat, ObjNested, ObjEmpty, ObjSteps, PlanDoc}

\* Well-formed objects with a brace inside a string value.
BraceInStringObjects == {ObjCloseInString, ObjOpenInString, ObjOpenInLongString}

Objects == PlainObjects \cup BraceInStringObjects

Proses == {ProseHelps, ProseNextLine, ProseOk, ProseBrace, ProseFence}

FencePrefixes == {<<>>, FenceJsonLine}

\* A well-formed object, after an optional opening fence, followed by prose.
ObjectProseInputs ==
    {pre \o obj \o prose : pre \in FencePrefixes, obj \in Objects, prose \in Proses}

\* Model output cut off at any point.
TruncatedInputs == {SubSeq(PlanDoc, 1, n) : n \in 1..Len(PlanDoc)}

LineLibrary ==
    {LinePushups, LineRest, LineShort, LineTen, LineQuoted, LineBlank, LineFenceLed}

RECURSIVE LineSeqs(_)
\* The sequences of 1..n lines of the library.
LineSeqs(n) ==
    IF n = 0 THEN {}
    ELSE {<<l>> : l \in LineLibrary}
         \cup {Append(ls, l) : ls \in LineSeqs(n - 1), l \in LineLibrary}

LineInputs == {Join(ls, <<"\n">>) : ls \in LineSeqs(MaxLines)}

MiscInputs ==
    {MiscStepsOnly, MiscStepsBad, MiscGarbage, MiscTrailingComma, MiscNumber,
     MiscFencedPlan, <<>>}

\* Everything fix_json is run on.
FixInputs == ObjectProseInputs \cup TruncatedInputs \cup LineInputs \cup MiscInputs

-----------------------------------------------------------------------------
(* The responses the model is run on                                       *)

\* Hello
TextHello ==
    <<"H", "e", "l", "l", "o" >>

\* World
TextWorld ==
    <<"W", "o", "r", "l", "d" >>

\* Direct
TextDirect ==
    <<"D", "i", "r", "e", "c", "t" >>

\* The most parts a result or a candidate's content has.
MaxParts == 2

\* The most candidates a response has.
MaxCands == 2

RECURSIVE SeqsOfLen(_, _)
\* The sequences of n elements of S.
SeqsOfLen(S, n) ==
    IF n = 0 THEN {<<>>} ELSE {Append(q, x) : q \in SeqsOfLen(S, n - 1), x \in S}

\* The sequences of 0..n elements of S.
SeqsUpTo(S, n) == UNION {SeqsOfLen(S, k) : k \in 0..n}

Response(text, textRaises, result, candidates) ==
    [text |-> text, textRaises |-> textRaises, result |-> result,
     candidates |-> candidates]

Candidate(content, text) == [content |-> content, text |-> text]

\* The text attribute of a part: missing, empty, or a text.
ResultPartOptions == {None, Some(<<>>), Some(TextHello), Some(TextWorld)}

CandPartOptions == {Some(<<>>), Some(TextHello), Some(TextWorld)}

ResultOptions ==
    {NoParts} \cup {WithParts(ps) : ps \in SeqsUpTo(ResultPartOptions, MaxParts)}

CandidateOptions ==
    {Candidate(c, t) :
        c \in {NoParts} \cup {WithParts(ps) : ps \in SeqsUpTo(CandPartOptions, MaxParts)},
        t \in {None, Some(TextDirect)}}

\* The candidates that may follow the first one of a response.
FollowerCandidates ==
    {Candidate(NoParts, None), Candidate(NoParts, Some(TextDirect)),
     Candidate(WithParts(<<Some(TextWorld)>>), None)}

\* The candidate lists of a response: none, or any first candidate followed
\* by up to MaxCands - 1 of the follower candidates.
CandidateLists ==
    {<<>>} \cup {<<c>> \o rest : c \in CandidateOptions,
                                rest \in SeqsUpTo(FollowerCandidates, MaxCands - 1)}

\* The direct text attribute of a response and whether reading it raises.
DirectTextOptions ==
    {<<None, FALSE>>, <<Some(<<>>), FALSE>>, <<Some(TextDirect), FALSE>>,
     <<Some(TextDirect), TRUE>>}

\* Every response with one of the given results and candidate lists.
ExtractResponses(results, lists) ==
    {Response(tx[1], tx[2], r, cs) : tx \in DirectTextOptions, r \in results, cs \in lists}

\* A response that carries t as its direct text.
DirectResponse(t) == Response(Some(t), FALSE, NoParts, <<>>)

\* A response that carries t in the parts of one candidate's content.
CandidateResponse(t) ==
    Response(None, FALSE, NoParts, <<Candidate(WithParts(<<Some(t)>>), None)>>)

\* A response with no text anywhere.
EmptyResponse == Response(None, FALSE, NoParts, <<>>)

\* A response whose result parts are empty and whose candidate has text.
BlankResultResponse(t) ==
    Response(None, TRUE, WithParts(<<Some(<<>>)>>),
             <<Candidate(NoParts, Some(t))>>)

\* The texts the planning call may come back with.
PlanTexts ==
    {PlanDoc, MiscFencedPlan, TruncatedPlan, MiscNumber, MiscGarbage, ObjSteps,
     LinePushups, MiscStepsOnly}

\* What generate_content may do in the planning stage.
PlanningOutcomes ==
    {[kind |-> "response", response |-> DirectResponse(t)] : t \in PlanTexts}
    \cup {[kind |-> "response", response |-> CandidateResponse(t)] : t \in PlanTexts}
    \cup {[kind |-> "response", response |-> EmptyResponse],
          [kind |-> "response", response |-> BlankResultResponse(PlanDoc)],
          [kind |-> "raise", response |-> EmptyResponse],
          [kind |-> "interrupt", response |-> EmptyResponse]}

\* What generate_content may do in the execution stage.
ExecutionOutcomes ==
    {[kind |-> "response", response |-> DirectResponse(GuideText)],
     [kind |-> "response", response |->
        Response(None, FALSE, NoParts,
                 <<Candidate(WithParts(<<Some(TextHello), Some(TextWorld)>>), None)>>)],
     [kind |-> "response", response |-> EmptyResponse],
     [kind |-> "raise", response |-> EmptyResponse],
     [kind |-> "interrupt", response |-> EmptyResponse]}

\* What last_raw_plan_response.txt may hold when the program starts.
RawFiles == {None, Some(<<>>), Some(PlanDoc), Some(MiscGarbage)}

-----------------------------------------------------------------------------
(* State                                                                   *)

VARIABLES
    \* fix_json, run step by step on one input
    fx_pc,        \* "idle", "enter", the name of the strategy to run next, "done"
    fx_input,     \* json_str
    fx_s,         \* s, the prepared text
    fx_tried,     \* the strategies run so far, in order
    fx_by,        \* the strategy whose result was returned, "none" if none
    fx_result,    \* the Optional[str] returned
    \* _extract_text_from_response, run on one response
    ex_pc,        \* "idle", "call", "done"
    ex_response,
    ex_result,
    \* the pipeline: main, generate, chain1_planning, chain2_execution
    pc,
    api_key,              \* GEMINI_API_KEY is set
    mock,                 \* --mock was given
    raw_file,             \* last_raw_plan_response.txt, None when missing
    final_file,           \* final_fitness_guide.md, None when missing
    mock_response_text,   \* generator._mock_response_text
    json_output,          \* chain1_planning's json_output
    plan,                 \* the value chain1_planning returns
    guide,                \* chain2_execution's guide
    calls,                \* generate_content calls, per stage
    parses,               \* json.loads / fix_json calls on json_output
    debug_writes,         \* attempts to write last_raw_plan_response.txt
    raised,               \* the exception raised inside a stage, "none" if none
    error,                \* the error that surfaced to main, "none" if none
    log                   \* the stage events of the run, in order

fixVars == <<fx_pc, fx_input, fx_s, fx_tried, fx_by, fx_result>>

extractVars == <<ex_pc, ex_response, ex_result>>

pipeVars ==
    <<pc, api_key, mock, raw_file, final_file, mock_response_text, json_output,
      plan, guide, calls, parses, debug_writes, raised, error, log>>

vars == <<fixVars, extractVars, pipeVars>>

\* fix_json is not running.
FixIdle ==
    /\ fx_pc = "idle"
    /\ fx_input = <<>>
    /\ fx_s = <<>>
    /\ fx_tried = <<>>
    /\ fx_by = "none"
    /\ fx_result = None

\* _extract_text_from_response is not running.
ExtractIdle ==
    /\ ex_pc = "idle"
    /\ ex_response = EmptyResponse
    /\ ex_result = None

\* The pipeline is not running.
PipeIdle ==
    /\ pc = "idle"
    /\ api_key = FALSE
    /\ mock = FALSE
    /\ raw_file = None
    /\ final_file = None
    /\ mock_response_text = None
    /\ json_output = None
    /\ plan = NoValue
    /\ guide = None
    /\ calls = [planning |-> 0, execution |-> 0]
    /\ parses = 0
    /\ debug_writes = 0
    /\ raised = "none"
    /\ error = "none"
    /\ log = <<>>

-----------------------------------------------------------------------------
(* fix_json as a state machine: one action per strategy block              *)

\* Entry: s is prepared (src/app.py lines 38-41).
FixEnter ==
    /\ fx_pc = "enter"
    /\ fx_s' = Prepare(fx_input)
    /\ fx_pc' = "direct"
    /\ UNCHANGED <<fx_input, fx_tried, fx_by, fx_result>>

\* Strategy name has yielded r: return it, or fall through to the next block.
AttemptWith(name, r) ==
    /\ fx_pc = name
    /\ fx_tried' = Append(fx_tried, name)
    /\ IF r.some
       THEN /\ fx_result' = r
            /\ fx_by' = name
            /\ fx_pc' = "done"
       ELSE /\ fx_pc' = NextStrategy(name, fx_s)
            /\ UNCHANGED <<fx_result, fx_by>>
    /\ UNCHANGED <<fx_input, fx_s>>

\* The block of strategy name.
Attempt(name) == fx_pc = name /\ AttemptWith(name, RunStrategy(name, fx_s))

TryDirectParse == Attempt("direct")

TryBraceBalanced == Attempt("brace")

TryHeuristicRepair == Attempt("repair")

TryLineSalvage == Attempt("salvage")

TryGreedyBraces == Attempt("greedy")

TryStepsUnwrap == Attempt("unwrap")

\* return None
FixReturnNone ==
    /\ fx_pc = "return"
    /\ fx_pc' = "done"
    /\ UNCHANGED <<fx_input, fx_s, fx_tried, fx_by, fx_result>>

-----------------------------------------------------------------------------
(* _extract_text_from_response as one step                                 *)

ExtractCall ==
    /\ ex_pc = "call"
    /\ ex_result' = ExtractText(ex_response)
    /\ ex_pc' = "done"
    /\ UNCHANGED ex_response

-----------------------------------------------------------------------------
(* The pipeline: main, generate, chain1_planning, chain2_execution         *)

\* A faulty test of the mock attribute: "is not None" instead of truthiness,
\* so that an empty artifact also replaces the call.
UsesMockIfLoaded(mockText) == mockText.some

\* if getattr(self, '_mock_response_text', None): the stage takes the mock
\* text and does not call generate_content.
UsesMock(mockText) == Truthy(mockText)

\* A faulty absence check that lets a missing text through.
IsAbsentNever(o) == FALSE

\* if json_output is None / if guide is None
IsAbsent(o) == ~o.some

\* json_output or ''
OrEmpty(o) == IF o.some THEN o.txt ELSE <<>>

\* with open('last_raw_plan_response.txt', 'w') as fh: fh.write(...), inside
\* try/except Exception: pass.  The file after the attempt.
DebugDump(file, text, writeOk) == IF writeOk THEN Some(text) ELSE file

\* A faulty handler in which a failed write of the debug artifact replaces
\* the exception being handled.
ReraisedOrWriteError(original, writeOk) ==
    IF writeOk THEN original ELSE "DebugArtifactWriteFailed"

\* The exception that leaves chain1_planning's handler: the bare raise
\* re-raises the one caught, whatever became of the write.
Reraised(original, writeOk) == original

\* A faulty handler chain: a failed stage hands control to the stage after it
\* instead of ending the run.
PropagateResume(stage) == IF stage = "planning" THEN "e_call" ELSE "write"

\* Where an exception that leaves a stage ends: generate does not catch it,
\* main's except Exception prints it and exits 1.
Propagate(stage) == "exit1"

\* main, up to the call of generate: the constructor, then the --mock load.
MainStart ==
    /\ pc = "main"
    /\ IF ~api_key
       THEN /\ pc' = "exit1"
            /\ error' = "NoApiKey"
            /\ UNCHANGED <<mock_response_text, log>>
       ELSE /\ pc' = "p_call"
            /\ mock_response_text' = IF mock THEN raw_file ELSE None
            /\ log' = Append(log, "planning_entered")
            /\ UNCHANGED error
    /\ UNCHANGED <<api_key, mock, raw_file, final_file, json_output, plan, guide,
                   calls, parses, debug_writes, raised>>

\* chain1_planning, lines 180-185: the mock text, or one generate_content call
\* and the extraction of its text.
P_Call ==
    /\ pc = "p_call"
    /\ IF UsesMock(mock_response_text)
       THEN /\ json_output' = mock_response_text
            /\ pc' = "p_check"
            /\ UNCHANGED <<calls, raised, error, log>>
       ELSE \E out \in PlanningOutcomes :
            /\ calls' = [calls EXCEPT !.planning = @ + 1]
            /\ CASE out.kind = "response" ->
                      /\ json_output' = ExtractText(out.response)
                      /\ pc' = "p_check"
                      /\ UNCHANGED <<raised, error, log>>
                 [] out.kind = "raise" ->
                      /\ raised' = "CompletionError"
                      /\ pc' = "p_except"
                      /\ UNCHANGED <<json_output, error, log>>
                 [] out.kind = "interrupt" ->
                      /\ error' = "UserCancelled"
                      /\ pc' = "exit0"
                      /\ log' = Append(log, "cancelled")
                      /\ UNCHANGED <<json_output, raised>>
    /\ UNCHANGED <<api_key, mock, raw_file, final_file, mock_response_text, plan,
                   guide, parses, debug_writes>>

\* lines 187-188: no text, no parse.
P_Check ==
    /\ pc = "p_check"
    /\ IF IsAbsent(json_output)
       THEN /\ raised' = "EmptyModelOutput"
            /\ pc' = "p_except"
       ELSE /\ pc' = "p_parse"
            /\ UNCHANGED raised
    /\ UNCHANGED <<api_key, mock, raw_file, final_file, mock_response_text,
                   json_output, plan, guide, calls, parses, debug_writes, error, log>>

\* json.loads(json_output) has yielded r: the plan, or on to the repair.
P_Parsed(r) ==
    IF r.ok
    THEN /\ plan' = r.val
         /\ pc' = "p_return"
    ELSE /\ pc' = "p_fix"
         /\ UNCHANGED plan

\* lines 196-199: plan = json.loads(json_output)
P_Parse ==
    /\ pc = "p_parse"
    /\ parses' = parses + 1
    /\ P_Parsed(Loads(OrEmpty(json_output)))
    /\ UNCHANGED <<api_key, mock, raw_file, final_file, mock_response_text,
                   json_output, guide, calls, debug_writes, raised, error, log>>

\* json.loads(fixed_json) has yielded r: the plan, or the ValueError.
P_Reparsed(r) ==
    IF r.ok
    THEN /\ plan' = r.val
         /\ pc' = "p_return"
         /\ UNCHANGED raised
    ELSE /\ raised' = "RepairParseFailed"
         /\ pc' = "p_dump"
         /\ UNCHANGED plan

\* if fixed_json: ... else: ...
P_Fixed(fixed) ==
    IF Truthy(fixed) THEN P_Reparsed(Loads(fixed.txt))
    ELSE /\ raised' = "RepairFailed"
         /\ pc' = "p_dump"
         /\ UNCHANGED plan

\* lines 203-209 and 218: fixed_json = self.fix_json(json_output), parsed
\* again when it is not empty.
P_Fix ==
    /\ pc = "p_fix"
    /\ parses' = parses + 1
    /\ P_Fixed(FixJson(OrEmpty(json_output)))
    /\ UNCHANGED <<api_key, mock, raw_file, final_file, mock_response_text,
                   json_output, guide, calls, debug_writes, error, log>>

\* lines 210-217 and 219-225: the raw text is saved, then the ValueError is
\* raised.
P_Dump ==
    /\ pc = "p_dump"
    /\ \E writeOk \in BOOLEAN :
          raw_file' = DebugDump(raw_file, OrEmpty(json_output), writeOk)
    /\ debug_writes' = debug_writes + 1
    /\ pc' = "p_except"
    /\ log' = Append(log, "debug_write")
    /\ UNCHANGED <<api_key, mock, final_file, mock_response_text, json_output,
                   plan, guide, calls, parses, raised, error>>

\* lines 234-242: the handler of every exception of the stage.
P_Except ==
    /\ pc = "p_except"
    /\ \E writeOk \in BOOLEAN :
          /\ raw_file' = DebugDump(raw_file, OrEmpty(json_output), writeOk)
          /\ error' = Reraised(raised, writeOk)
    /\ debug_writes' = debug_writes + 1
    /\ pc' = Propagate("planning")
    /\ log' = log \o <<"debug_write", "planning_failed">>
    /\ UNCHANGED <<api_key, mock, final_file, mock_response_text, json_output,
                   plan, guide, calls, parses, raised>>

\* lines 227-232 and generate line 279: the plan goes to chain2_execution.
P_Return ==
    /\ pc = "p_return"
    /\ pc' = "e_call"
    /\ log' = Append(log, "planning_ok")
    /\ UNCHANGED <<api_key, mock, raw_file, final_file, mock_response_text,
                   json_output, plan, guide, calls, parses, debug_writes, raised,
                   error>>

\* chain2_execution is entered; lines 254-260: the mock text, or one
\* generate_content call and the extraction of its text.
E_Call ==
    /\ pc = "e_call"
    /\ IF UsesMock(mock_response_text)
       THEN /\ guide' = mock_response_text
            /\ pc' = "e_check"
            /\ log' = Append(log, "execution_entered")
            /\ UNCHANGED <<calls, raised, error>>
       ELSE \E out \in ExecutionOutcomes :
            /\ calls' = [calls EXCEPT !.execution = @ + 1]
            /\ CASE out.kind = "response" ->
                      /\ guide' = ExtractText(out.response)
                      /\ pc' = "e_check"
                      /\ log' = Append(log, "execution_entered")
                      /\ UNCHANGED <<raised, error>>
                 [] out.kind = "raise" ->
                      /\ raised' = "CompletionError"
                      /\ pc' = "e_except"
                      /\ log' = Append(log, "execution_entered")
                      /\ UNCHANGED <<guide, error>>
                 [] out.kind = "interrupt" ->
                      /\ error' = "UserCancelled"
                      /\ pc' = "exit0"
                      /\ log' = log \o <<"execution_entered", "cancelled">>
                      /\ UNCHANGED <<guide, raised>>
    /\ UNCHANGED <<api_key, mock, raw_file, final_file, mock_response_text,
                   json_output, plan, parses, debug_writes>>

\* lines 262-268 and generate lines 281-285: the guide is returned as it is.
E_Check ==
    /\ pc = "e_check"
    /\ IF IsAbsent(guide)
       THEN /\ raised' = "EmptyModelOutput"
            /\ pc' = "e_except"
            /\ UNCHANGED log
       ELSE /\ pc' = "write"
            /\ log' = log \o <<"execution_ok", "guide_returned">>
            /\ UNCHANGED raised
    /\ UNCHANGED <<api_key, mock, raw_file, final_file, mock_response_text,
                   json_output, plan, guide, calls, parses, debug_writes, error>>

\* lines 270-272: traceback and re-raise.
E_Except ==
    /\ pc = "e_except"
    /\ error' = raised
    /\ pc' = Propagate("execution")
    /\ log' = Append(log, "execution_failed")
    /\ UNCHANGED <<api_key, mock, raw_file, final_file, mock_response_text,
                   json_output, plan, guide, calls, parses, debug_writes, raised>>

\* main, lines 327-335: the guide is printed and written to
\* final_fitness_guide.md; a failed write ends in main's except Exception.
MainWrite ==
    /\ pc = "write"
    /\ \E writeOk \in BOOLEAN :
          IF writeOk
          THEN /\ final_file' = guide
               /\ pc' = "exit0"
               /\ log' = Append(log, "guide_written")
               /\ UNCHANGED error
          ELSE /\ error' = "GuideWriteFailed"
               /\ pc' = "exit1"
               /\ UNCHANGED <<final_file, log>>
    /\ UNCHANGED <<api_key, mock, raw_file, mock_response_text, json_output, plan,
                   guide, calls, parses, debug_writes, raised>>

-----------------------------------------------------------------------------
(* Specifications                                                          *)

\* The pipeline, from the start of main.
Init ==
    /\ pc = "main"
    /\ api_key \in BOOLEAN
    /\ mock \in BOOLEAN
    /\ raw_file \in RawFiles
    /\ final_file = None
    /\ mock_response_text = None
    /\ json_output = None
    /\ plan = NoValue
    /\ guide = None
    /\ calls = [planning |-> 0, execution |-> 0]
    /\ parses = 0
    /\ debug_writes = 0
    /\ raised = "none"
    /\ error = "none"
    /\ log = <<>>
    /\ FixIdle
    /\ ExtractIdle

Next ==
    \/ (MainStart /\ UNCHANGED <<fixVars, extractVars>>)
    \/ (P_Call /\ UNCHANGED <<fixVars, extractVars>>)
    \/ (P_Check /\ UNCHANGED <<fixVars, extractVars>>)
    \/ (P_Parse /\ UNCHANGED <<fixVars, extractVars>>)
    \/ (P_Fix /\ UNCHANGED <<fixVars, extractVars>>)
    \/ (P_Dump /\ UNCHANGED <<fixVars, extractVars>>)
    \/ (P_Except /\ UNCHANGED <<fixVars, extractVars>>)
    \/ (P_Return /\ UNCHANGED <<fixVars, extractVars>>)
    \/ (E_Call /\ UNCHANGED <<fixVars, extractVars>>)
    \/ (E_Check /\ UNCHANGED <<fixVars, extractVars>>)
    \/ (E_Except /\ UNCHANGED <<fixVars, extractVars>>)
    \/ (MainWrite /\ UNCHANGED <<fixVars, extractVars>>)

Spec == Init /\ [][Next]_vars

\* fix_json on every input of FixInputs.
FixInit ==
    /\ fx_pc = "enter"
    /\ fx_input \in FixInputs
    /\ fx_s = <<>>
    /\ fx_tried = <<>>
    /\ fx_by = "none"
    /\ fx_result = None
    /\ PipeIdle
    /\ ExtractIdle

FixNext ==
    \/ (FixEnter /\ UNCHANGED <<pipeVars, extractVars>>)
    \/ (TryDirectParse /\ UNCHANGED <<pipeVars, extractVars>>)
    \/ (TryBraceBalanced /\ UNCHANGED <<pipeVars, extractVars>>)
    \/ (TryHeuristicRepair /\ UNCHANGED <<pipeVars, extractVars>>)
    \/ (TryLineSalvage /\ UNCHANGED <<pipeVars, extractVars>>)
    \/ (TryGreedyBraces /\ UNCHANGED <<pipeVars, extractVars>>)
    \/ (TryStepsUnwrap /\ UNCHANGED <<pipeVars, extractVars>>)
    \/ (FixReturnNone /\ UNCHANGED <<pipeVars, extractVars>>)

SpecFix == FixInit /\ [][FixNext]_vars

\* _extract_text_from_response on every response shape of the library.
ExtractInit ==
    /\ ex_pc = "call"
    /\ ex_response \in ExtractResponses(ResultOptions, CandidateLists)
    /\ ex_result = None
    /\ PipeIdle
    /\ FixIdle

ExtractNext == ExtractCall /\ UNCHANGED <<pipeVars, fixVars>>

SpecExtract == ExtractInit /\ [][ExtractNext]_vars

-----------------------------------------------------------------------------
(* Properties of the pipeline  (checked under Spec)                        *)

\* The stage events of a run that succeeds, in their order.
StageEvents ==
    <<"planning_entered", "planning_ok", "execution_entered", "execution_ok",
      "guide_returned", "guide_written">>

\* The position of a stage event in that order, 0 for any other event.
StageRank(e) ==
    IF \E k \in 1..Len(StageEvents) : StageEvents[k] = e
    THEN CHOOSE k \in 1..Len(StageEvents) : StageEvents[k] = e
    ELSE 0

\* e has been logged.
Logged(e) == \E i \in 1..Len(log) : log[i] = e

\* C1: the stages happen in the order Planning, Execution, Guide returned,
\* Guide written, with no step back; a stage event is logged only after the
\* event before it; the failure of a stage is the last event of its run and
\* such a run writes no guide; the guide artifact exists only after the
\* execution stage has succeeded and the guide has been returned.
C1_StageOrder ==
    /\ \A i, j \in 1..Len(log) :
          (i < j /\ StageRank(log[i]) > 0 /\ StageRank(log[j]) > 0)
             => StageRank(log[i]) < StageRank(log[j])
    /\ \A i \in 1..Len(log) :
          StageRank(log[i]) > 1 => \E j \in 1..(i - 1) : StageRank(log[j]) = StageRank(log[i]) - 1
    /\ \A i \in 1..Len(log) :
          log[i] \in {"planning_failed", "execution_failed"} => i = Len(log)
    /\ (Logged("planning_failed") \/ Logged("execution_failed")) => final_file = None
    /\ final_file.some =>
          /\ Logged("planning_ok") /\ Logged("execution_ok") /\ Logged("guide_returned")
          /\ final_file = guide

\* A run that went through both stages and wrote the guide.
C1_Witness ==
    /\ pc = "exit0"
    /\ log = StageEvents
    /\ final_file.some

\* The planning stage is past its completion step.
PlanningCallDone == Logged("planning_entered") /\ pc # "p_call"

\* C2 as stated: each stage that is entered calls the completion
\* collaborator exactly once, with or without the mock flag.
C2_Original ==
    /\ PlanningCallDone => calls.planning = 1
    /\ Logged("execution_entered") => calls.execution = 1

\* C2, amended: each stage that is entered calls the completion collaborator
\* at most once; exactly once when no non-empty mock text has been loaded,
\* and not at all when one has (the stage then takes the mock text).
C2_CallsPerStage ==
    /\ calls.planning <= 1
    /\ calls.execution <= 1
    /\ PlanningCallDone =>
          calls.planning =
             (IF mock_response_text.some /\ mock_response_text.txt # <<>> THEN 0 ELSE 1)
    /\ Logged("execution_entered") =>
          calls.execution =
             (IF mock_response_text.some /\ mock_response_text.txt # <<>> THEN 0 ELSE 1)

\* A run with the mock flag and an empty artifact: both stages have called
\* the collaborator, once each.
C2_Witness ==
    /\ mock
    /\ mock_response_text = Some(<<>>)
    /\ calls = [planning |-> 1, execution |-> 1]
    /\ Logged("guide_written")

\* The state part of C3: a planning stage that failed on an empty output has
\* parsed nothing, holds no plan and is not followed by the execution stage;
\* nothing is parsed unless there is a text.
C3_State ==
    /\ (raised = "EmptyModelOutput" /\ ~Logged("planning_ok")) =>
          /\ parses = 0
          /\ plan = NoValue
          /\ ~Logged("execution_entered")
          /\ final_file = None
    /\ parses > 0 => json_output.some

\* The step part of C3: from the check of an absent text the stage goes
\* straight to its failure with the empty-model-output error.
C3_Step ==
    /\ (pc = "p_check" /\ ~json_output.some) =>
          /\ pc' = "p_except"
          /\ raised' = "EmptyModelOutput"
          /\ parses' = parses
          /\ plan' = plan
    /\ (pc = "e_check" /\ ~guide.some) =>
          /\ pc' = "e_except"
          /\ raised' = "EmptyModelOutput"

\* C3: in either stage, an absent text makes the stage fail with the
\* empty-model-output error before any parse or recovery is attempted; in
\* Planning no plan is produced and Execution is not entered.
C3_EmptyOutputFailsFirst == []C3_State /\ [][C3_Step]_vars

\* A run whose planning response held no text: it ended with that error, with
\* one call made and nothing parsed.
C3_Witness ==
    /\ pc = "exit1"
    /\ error = "EmptyModelOutput"
    /\ calls.planning = 1
    /\ ~json_output.some
    /\ parses = 0

\* The planning stage has failed.
PlanningFailed ==
    pc = "exit1" /\ Logged("planning_entered") /\ ~Logged("planning_ok")

\* C4: every failure of the planning stage is preceded by an attempt to write
\* the debug artifact, and the error that surfaces is the one raised in the
\* stage, whether or not that write succeeded.
C4_DumpBeforeFailure ==
    PlanningFailed =>
       /\ \E i, j \in 1..Len(log) :
             i < j /\ log[i] = "debug_write" /\ log[j] = "planning_failed"
       /\ debug_writes >= 1
       /\ raised \in {"CompletionError", "EmptyModelOutput", "RepairParseFailed",
                      "RepairFailed"}
       /\ error = raised

\* A planning failure after which the debug artifact is still missing: every
\* write of it failed, and the repair error is what surfaced.
C4_Witness ==
    /\ PlanningFailed
    /\ raw_file = None
    /\ debug_writes >= 1
    /\ error = "RepairFailed"

\* v is an array of strings.
IsStringList(v) == v.t = "arr" /\ \A n \in 1..Len(v.v) : v.v[n].t = "str"

\* v is an object with a member key whose value is an array of strings.
HasListField(v, key) ==
    v.t = "obj" /\ \E n \in 1..Len(v.v) : v.v[n].k = key /\ IsStringList(v.v[n].val)

\* C8 as stated: whenever Planning succeeds, the plan it hands on is an object
\* with the fields steps, assumptions and success_criteria, each a sequence of
\* strings.
C8_Original ==
    Logged("planning_ok") =>
       /\ HasListField(plan, KeySteps)
       /\ HasListField(plan, KeyAssumptions)
       /\ HasListField(plan, KeySuccessCriteria)

-----------------------------------------------------------------------------
(* Properties of _extract_text_from_response  (checked under SpecExtract)  *)

\* The text the direct attribute yields, empty when there is none.
ShapeDirect(r) == IF ~r.textRaises /\ r.text.some THEN r.text.txt ELSE <<>>

\* The newline-joined text of the result parts, empty when there is none.
ShapeResult(r) ==
    IF r.result.present THEN Join(PartTexts(r.result.parts), <<"\n">>) ELSE <<>>

\* The newline-joined text of the candidates, empty when there is none.
ShapeCandidates(r) == Join(AllCandidateTexts(r.candidates), <<"\n">>)

\* The first of the three shapes that yields a non-empty text wins; absence
\* when none does.
FirstShapeWithText(r) ==
    IF ShapeDirect(r) # <<>> THEN Some(ShapeDirect(r))
    ELSE IF ShapeResult(r) # <<>> THEN Some(ShapeResult(r))
    ELSE IF ShapeCandidates(r) # <<>> THEN Some(ShapeCandidates(r))
    ELSE None

\* C5 as stated: the extractor returns the text of the first shape, in the
\* order direct text, result parts, candidates, that yields a non-empty text,
\* absence only when none of them does, and never an empty string.
C5_Original ==
    ex_pc = "done" =>
       /\ ex_result = FirstShapeWithText(ex_response)
       /\ ex_result.some => ex_result.txt # <<>>

-----------------------------------------------------------------------------
(* Properties of fix_json  (checked under SpecFix)                         *)

\* Warm up
TextWarmUp == <<"W", "a", "r", "m", " ", "u", "p">>

\* Main set
TextMainSet == <<"M", "a", "i", "n", " ", "s", "e", "t">>

\* The parse result r is an object whose steps member is an array that holds
\* the strings a and b.
ParsesWithSteps(r, a, b) ==
    /\ r.ok
    /\ r.val.t = "obj"
    /\ \E n \in 1..Len(r.val.v) :
          /\ r.val.v[n].k = KeySteps
          /\ r.val.v[n].val.t = "arr"
          /\ \E i, j \in 1..Len(r.val.v[n].val.v) :
                r.val.v[n].val.v[i] = JStr(a) /\ r.val.v[n].val.v[j] = JStr(b)

\* C6 as stated: on the truncated plan the heuristic repair succeeds, and the
\* result is an object whose steps hold "Warm up" and "Main set".
C6_Original ==
    (fx_pc = "done" /\ fx_input = TruncatedPlan) =>
       /\ fx_by = "repair"
       /\ fx_result.some
       /\ ParsesWithSteps(Loads(fx_result.txt), TextWarmUp, TextMainSet)

\* fx_input is one of the given objects, after an optional opening fence and
\* followed by prose: the result is that object, serialized again.
ObjectRecovered(objects) ==
    \A pre \in FencePrefixes, obj \in objects, prose \in Proses :
       fx_input = pre \o obj \o prose => fx_result = Some(Dumps(Loads(obj).val))

\* C7 as stated: for every well-formed object followed by prose, recovery
\* returns exactly that object, also when its strings hold braces.
C7_Original == fx_pc = "done" => ObjectRecovered(Objects)

\* C7, amended: for every well-formed object none of whose strings holds an
\* open or close brace, followed by prose, recovery returns exactly that
\* object, serialized again, and ignores the prose.
C7_ObjectBeforeProse == fx_pc = "done" => ObjectRecovered(PlainObjects)

\* The nested object followed by prose with braces of its own, recovered by
\* the brace-balanced strategy.
C7_Witness ==
    /\ fx_pc = "done"
    /\ fx_input = ObjNested \o ProseBrace
    /\ fx_by = "brace"
    /\ fx_result = Some(Dumps(Loads(ObjNested).val))

\* A line of the text: trimmed, then stripped of quotes and commas.
Cleaned(line) == Strip(Strip(line, Ws), {"\"", ","})

\* The cleaned line when it is longer than 10 characters.
StepOf(line) ==
    IF Len(Cleaned(line)) > SalvageMinLen THEN <<Cleaned(line)>> ELSE <<>>

RECURSIVE StepsOf(_)
\* The cleaned lines of t that are longer than 10 characters, in order.
StepsOf(t) ==
    IF Find(t, "\n") = 0 THEN StepOf(t)
    ELSE StepOf(SubSeq(t, 1, Find(t, "\n") - 1))
         \o StepsOf(SubSeq(t, Find(t, "\n") + 1, Len(t)))

\* The object the line salvage is to return for the lines of t.
SalvageOf(t) ==
    Some(Dumps(JObj(<< [k |-> KeySteps,
                        val |-> JArr([n \in 1..Len(StepsOf(t)) |-> JStr(StepsOf(t)[n])])],
                       [k |-> KeyAssumptions, val |-> JArr(<<>>)],
                       [k |-> KeySuccessCriteria, val |-> JArr(<<>>)] >>)))

\* The input holds no open brace and does not parse once its fences are
\* stripped.
NoBraceNoParse == Find(fx_input, "{") = 0 /\ ~Loads(Prepare(fx_input)).ok

\* C9 as stated: for an input without an open brace that does not parse and
\* has a cleaned line longer than 10 characters, the result is the object
\* whose steps are exactly the cleaned lines of the input longer than 10
\* characters, with empty assumptions and success_criteria.
C9_Original ==
    (fx_pc = "done" /\ NoBraceNoParse /\ StepsOf(fx_input) # <<>>) =>
       fx_result = SalvageOf(fx_input)

\* The text whose lines are salvaged: the input with its opening and closing
\* fence stripped, twice.
Unfenced(t) ==
    Strip(StripTrailingFence(Strip(StripLeadingFence(Prepare(t)), Ws)), Ws)

\* C9, amended: for an input without an open brace that does not parse, the
\* lines are those of the text left when the opening and the closing fence
\* have been stripped twice; when one of them, cleaned, is longer than 10
\* characters, the result is the object whose steps are exactly those cleaned
\* lines, in order, with empty assumptions and success_criteria.
C9_LineSalvage ==
    (fx_pc = "done" /\ NoBraceNoParse /\ StepsOf(Unfenced(fx_input)) # <<>>) =>
       /\ fx_by = "salvage"
       /\ fx_result = SalvageOf(Unfenced(fx_input))

\* Three lines, the first led by a fence and the second of exactly 10
\* characters, salvaged into two steps.
C9_Witness ==
    /\ fx_pc = "done"
    /\ fx_input = LineFenceLed \o <<"\n">> \o LineTen \o <<"\n">> \o LinePushups
    /\ fx_by = "salvage"
    /\ Len(StepsOf(Unfenced(fx_input))) = 2

\* The strategies, in the order of the ladder.
StrategyOrder == <<"direct", "brace", "repair", "salvage", "greedy", "unwrap">>

\* The place of a strategy in the ladder.
StrategyRank(name) == CHOOSE k \in 1..Len(StrategyOrder) : StrategyOrder[k] = name

\* Every strategy of the ladder before place k fails on the prepared text.
AllFailBefore(k) ==
    \A m \in 1..(k - 1) : ~RunStrategy(StrategyOrder[m], fx_s).some

\* C10: the strategies are attempted in the order of the ladder; a result is
\* returned by the strategy attempted last, only when every strategy before
\* it in the ladder fails on the same text, and nothing is attempted after
\* it; absence is returned only when all six fail.
C10_StrategyOrder ==
    /\ \A i, j \in 1..Len(fx_tried) :
          i < j => StrategyRank(fx_tried[i]) < StrategyRank(fx_tried[j])
    /\ fx_by # "none" =>
          /\ fx_pc = "done"
          /\ fx_tried[Len(fx_tried)] = fx_by
          /\ fx_result.some
          /\ fx_result = RunStrategy(fx_by, fx_s)
          /\ AllFailBefore(StrategyRank(fx_by))
    /\ (fx_pc = "done" /\ fx_by = "none") =>
          /\ fx_result = None
          /\ AllFailBefore(Len(StrategyOrder) + 1)
    /\ fx_pc \notin {"idle", "enter", "done", "return"} =>
          /\ fx_by = "none"
          /\ AllFailBefore(StrategyRank(fx_pc))

\* The last strategy of the ladder returns the result, after the three
\* strategies open to a text without a brace have failed.
C10_Witness ==
    /\ fx_pc = "done"
    /\ fx_by = "unwrap"
    /\ fx_tried = <<"direct", "salvage", "greedy", "unwrap">>

=============================================================================
